---- MODULE Spec2Model ----
(***************************************************************************)
(* Customer-record web application (src/app.js): the Express handlers for  *)
(* create / update / delete / bulk delete and the search + pagination +    *)
(* sorting listing, over one SQLite table `customers`.                     *)
(*                                                                         *)
(* JavaScript strings are sequences of one-character strings, so that      *)
(* trim, parseInt and LIKE are computed character by character.            *)
(* JavaScript values are tagged records (undefined / string / array) and   *)
(* JavaScript numbers are tagged records (finite / beyond the model's      *)
(* integers / +-Infinity / NaN).                                           *)
(***************************************************************************)
EXTENDS Integers, Sequences, FiniteSets, TLC

(***************************************************************************)
(* Bounds of the model.                                                    *)
(***************************************************************************)
MaxRows == 2          \* rows ever inserted (AUTOINCREMENT ids 1..MaxRows)
MaxReq == 2           \* GET / requests in flight at once
MaxClock == 1         \* distinct CURRENT_TIMESTAMP seconds seen by inserts

(***************************************************************************)
(* JavaScript values and strings                                           *)
(***************************************************************************)
Undefined == [t |-> "undefined", v |-> <<>>]
Str(s) == [t |-> "string", v |-> s]
Arr(a) == [t |-> "array", v |-> a]

IsStr(x) == x.t = "string"
IsArr(x) == x.t = "array"

\* SQL NULL (JS null bound as a parameter)
Null == [t |-> "null", v |-> <<>>]

WhiteSpace == {" "}
Digits == {"0", "1", "2", "3", "4", "5", "6", "7", "8", "9"}

DigitVal(c) ==
  CASE c = "0" -> 0 [] c = "1" -> 1 [] c = "2" -> 2 [] c = "3" -> 3
    [] c = "4" -> 4 [] c = "5" -> 5 [] c = "6" -> 6 [] c = "7" -> 7
    [] c = "8" -> 8 [] c = "9" -> 9

\* Length of the longest prefix of s made of characters of the set P
PrefixLen(s, P) ==
  LET stop == {i \in 1..Len(s) : s[i] \notin P}
  IN  IF stop = {} THEN Len(s)
      ELSE (CHOOSE i \in stop : \A j \in stop : i <= j) - 1

\* s without / reduced to its longest prefix of characters of the set P
DropLeading(s, P) == SubSeq(s, PrefixLen(s, P) + 1, Len(s))
TakeLeading(s, P) == SubSeq(s, 1, PrefixLen(s, P))

Reverse(s) == [i \in 1..Len(s) |-> s[Len(s) + 1 - i]]

\* String.prototype.trim
Trim(s) == Reverse(DropLeading(Reverse(DropLeading(s, WhiteSpace)), WhiteSpace))

RECURSIVE Join(_)
\* Array.prototype.join(',') as used by ToString of an array
Join(a) ==
  IF a = <<>> THEN <<>>
  ELSE IF Len(a) = 1 THEN Head(a)
  ELSE Head(a) \o <<",">> \o Join(Tail(a))

\* ToString of a request value
ToStr(x) ==
  IF IsStr(x) THEN x.v
  ELSE IF IsArr(x) THEN Join(x.v)
  ELSE <<"u", "n", "d", "e", "f", "i", "n", "e", "d">>

\* JS truthiness of a request value (undefined, '' are falsy; arrays truthy)
Truthy(x) == (IsStr(x) /\ x.v # <<>>) \/ IsArr(x)

(***************************************************************************)
(* JavaScript numbers                                                      *)
(***************************************************************************)
Num(n) == [k |-> "fin", n |-> n]
Huge == [k |-> "huge", n |-> 0]        \* finite double above the model's integers
NegHuge == [k |-> "neghuge", n |-> 0]
Infinity == [k |-> "inf", n |-> 0]
NegInfinity == [k |-> "neginf", n |-> 0]
NaN == [k |-> "nan", n |-> 0]

IsFin(x) == x.k = "fin"
IsNaN(x) == x.k = "nan"

RECURSIVE DigitsValue(_, _)
DigitsValue(ds, acc) ==
  IF ds = <<>> THEN acc ELSE DigitsValue(Tail(ds), acc * 10 + DigitVal(Head(ds)))

\* parseInt(x, 10): ToString, skip leading white space, an optional sign, then
\* the longest run of decimal digits; no digit gives NaN.  The mathematical
\* value is rounded to a double: more than 309 significant digits is beyond
\* the largest double and gives Infinity.  Runs of 10..309 significant digits
\* are finite doubles outside the model's integers (Huge).
ParseInt(x) ==
  LET s0 == DropLeading(ToStr(x), WhiteSpace)
      neg == s0 # <<>> /\ Head(s0) = "-"
      s1 == IF s0 # <<>> /\ Head(s0) \in {"-", "+"} THEN Tail(s0) ELSE s0
      ds == TakeLeading(s1, Digits)
      sig == DropLeading(ds, {"0"})
  IN  IF ds = <<>> THEN NaN
      ELSE IF Len(sig) > 309 THEN (IF neg THEN NegInfinity ELSE Infinity)
      ELSE IF Len(sig) > 9 THEN (IF neg THEN NegHuge ELSE Huge)
      ELSE Num(IF neg THEN 0 - DigitsValue(sig, 0) ELSE DigitsValue(sig, 0))

\* x || d for a number x: NaN and 0 are falsy
NumOr(x, d) == IF IsNaN(x) \/ (IsFin(x) /\ x.n = 0) THEN d ELSE x

\* Math.max(1, x)
MathMax1(x) ==
  CASE x.k = "fin" -> IF x.n < 1 THEN Num(1) ELSE x
    [] x.k \in {"neghuge", "neginf"} -> Num(1)
    [] x.k \in {"huge", "inf"} -> x
    [] x.k = "nan" -> NaN

\* Math.ceil(total / size) for an integer total >= 0 and size >= 1
MathCeilDiv(total, size) ==
  CASE size.k = "fin" -> Num((total + size.n - 1) \div size.n)
    [] size.k = "huge" -> Num(IF total > 0 THEN 1 ELSE 0)
    [] size.k = "inf" -> Num(0)

\* Math.min(x, n) for a finite n
MathMin(x, n) ==
  CASE x.k = "fin" -> IF x.n < n.n THEN x ELSE n
    [] x.k \in {"huge", "inf"} -> n

\* Faulty variant of OffsetOf: page * size, the offset of the following page
MutOffsetOf(page, size) ==
  CASE size.k = "fin" -> Num(page.n * size.n)
    [] size.k = "huge" -> Huge
    [] size.k = "inf" -> Infinity

\* (page - 1) * size for a finite page
OffsetOf(page, size) ==
  CASE size.k = "fin" -> Num((page.n - 1) * size.n)
    [] size.k = "huge" -> IF page.n = 1 THEN Num(0) ELSE Huge
    [] size.k = "inf" -> IF page.n = 1 THEN NaN ELSE Infinity

(***************************************************************************)
(* The store: table customers (id INTEGER PRIMARY KEY AUTOINCREMENT,       *)
(* name TEXT NOT NULL, email TEXT, company TEXT, created_at DATETIME       *)
(* DEFAULT CURRENT_TIMESTAMP) and the SQL the handlers send to it.         *)
(***************************************************************************)
VARIABLES customers,   \* the rows of the table
          nextId,      \* the AUTOINCREMENT sequence: the next id to assign
          now,         \* CURRENT_TIMESTAMP, in seconds
          listing,     \* per GET / request: its closure variables and position
          lastWrite    \* outcome of the last create/update/delete request

vars == <<customers, nextId, now, listing, lastWrite>>

Reqs == 1..MaxReq

\* ASCII folding and codes used by LIKE and COLLATE NOCASE
Lower(c) == CASE c = "A" -> "a" [] c = "B" -> "b" [] OTHER -> c

Code(c) ==
  CASE c = " " -> 32 [] c = "%" -> 37 [] c = "_" -> 95
    [] c = "A" -> 65 [] c = "B" -> 66 [] c = "a" -> 97 [] c = "b" -> 98
    [] OTHER -> 120

RECURSIVE LikeMatch(_, _)
\* SQLite `s LIKE pat`: % matches any run of characters, _ matches any one
\* character, every other character matches itself ignoring ASCII case
LikeMatch(pat, s) ==
  IF pat = <<>> THEN s = <<>>
  ELSE IF Head(pat) = "%"
    THEN LikeMatch(Tail(pat), s) \/ (s # <<>> /\ LikeMatch(pat, Tail(s)))
  ELSE /\ s # <<>>
       /\ (Head(pat) = "_" \/ Lower(Head(pat)) = Lower(Head(s)))
       /\ LikeMatch(Tail(pat), Tail(s))

\* `field LIKE ?`: NULL LIKE anything is NULL, which is not true
FieldLike(field, pat) == IsStr(field) /\ LikeMatch(pat, field.v)

\* ' WHERE name LIKE ? OR company LIKE ? OR email LIKE ?' with its three
\* positional parameters, or no WHERE clause at all
WhereHolds(row, where, params) ==
  where => \/ FieldLike(row.name, params[1])
           \/ FieldLike(row.company, params[2])
           \/ FieldLike(row.email, params[3])

RECURSIVE NoCaseLess(_, _)
\* s < t under COLLATE NOCASE
NoCaseLess(s, t) ==
  IF t = <<>> THEN FALSE
  ELSE IF s = <<>> THEN TRUE
  ELSE IF Code(Lower(Head(s))) # Code(Lower(Head(t)))
    THEN Code(Lower(Head(s))) < Code(Lower(Head(t)))
  ELSE NoCaseLess(Tail(s), Tail(t))

\* x < y for two TEXT-or-NULL values under COLLATE NOCASE: NULL sorts first
TextLess(x, y) ==
  IF ~IsStr(y) THEN FALSE
  ELSE IF ~IsStr(x) THEN TRUE
  ELSE NoCaseLess(x.v, y.v)

\* The ORDER BY terms the store is sent by a well-formed listing
OrderTerms ==
  {"id DESC", "id ASC", "name COLLATE NOCASE ASC", "name COLLATE NOCASE DESC",
   "company COLLATE NOCASE ASC", "company COLLATE NOCASE DESC",
   "created_at ASC", "created_at DESC"}

\* row a must come before row b under the ORDER BY term
Before(a, b, orderBy) ==
  CASE orderBy = "id DESC" -> a.id > b.id
    [] orderBy = "id ASC" -> a.id < b.id
    [] orderBy = "name COLLATE NOCASE ASC" -> TextLess(a.name, b.name)
    [] orderBy = "name COLLATE NOCASE DESC" -> TextLess(b.name, a.name)
    [] orderBy = "company COLLATE NOCASE ASC" -> TextLess(a.company, b.company)
    [] orderBy = "company COLLATE NOCASE DESC" -> TextLess(b.company, a.company)
    [] orderBy = "created_at ASC" -> a.created_at < b.created_at
    [] orderBy = "created_at DESC" -> b.created_at < a.created_at

\* Every order in which the store may return the rows: rows that compare equal
\* under the term come in an order SQL leaves open
Orderings(rows, orderBy) ==
  {s \in [1..Cardinality(rows) -> rows] :
     /\ \A i, j \in DOMAIN s : i # j => s[i] # s[j]
     /\ \A i, j \in DOMAIN s : i < j => ~Before(s[j], s[i], orderBy)}

\* LIMIT n OFFSET k applied to a result sequence
Slice(s, limit, offset) ==
  IF offset >= Len(s) THEN <<>>
  ELSE SubSeq(s, offset + 1, IF offset + limit < Len(s) THEN offset + limit ELSE Len(s))

\* SELECT COUNT(*) AS count FROM customers [WHERE ...]
CountRows(where, params) ==
  Cardinality({c \in customers : WhereHolds(c, where, params)})

\* The replies db.all may give to
\* SELECT * FROM customers [WHERE ...] ORDER BY <orderBy> LIMIT ? OFFSET ?
\* A text that is no ORDER BY term is an SQL error; LIMIT and OFFSET must
\* convert losslessly to a 64-bit integer, or the statement fails.
SelectReplies(where, orderBy, params) ==
  LET n == Len(params)
      limit == params[n - 1]
      offset == params[n]
      matching == {c \in customers : WhereHolds(c, where, params)}
      failed == {[err |-> TRUE, rows |-> <<>>]}
      full == {[err |-> FALSE, rows |-> Slice(s, Cardinality(matching), offset.n)] :
                 s \in Orderings(matching, orderBy)}
  IN  IF orderBy \notin OrderTerms THEN failed
      ELSE IF ~IsFin(offset) THEN failed
      ELSE IF limit.k = "huge" THEN failed \cup full
      ELSE IF ~IsFin(limit) THEN failed
      ELSE {[err |-> FALSE, rows |-> Slice(s, limit.n, offset.n)] :
              s \in Orderings(matching, orderBy)}

\* `WHERE id = ?` with a text parameter: the INTEGER column compares equal to
\* a text that is a decimal integer of the same value
IdEquals(id, p) ==
  /\ IsStr(p) /\ p.v # <<>> /\ Len(p.v) <= 9
  /\ \A i \in DOMAIN p.v : p.v[i] \in Digits
  /\ DigitsValue(p.v, 0) = id

(***************************************************************************)
(* Write requests.  db.run executes one statement; the handler's callback  *)
(* answers 500 when the statement failed and redirects to / otherwise.     *)
(* The statement and its callback are one step: a handler reads nothing    *)
(* from the store between issuing the statement and its execution.         *)
(***************************************************************************)
\* The outcome of a write request: its route, the input it carried (the name
\* field of a create or update, the :id of a delete, the ids of a bulk delete),
\* the status answered and the number of statements it issued
Answer(route, input, status, runs) ==
  [route |-> route, input |-> input, status |-> status, runs |-> runs]

\* A row change marks every listing whose count has been executed and whose
\* select has not (history field `dirty`)
Touched(rows) ==
  [r \in Reqs |->
     IF rows # customers /\ listing[r].pc \in {"countReply", "select"}
       THEN [listing[r] EXCEPT !.dirty = TRUE]
       ELSE listing[r]]

\* Faulty variant of NameMissing: `!name` alone, without the trim test
MutNameMissing(name) == ~Truthy(name)

\* `!name || name.trim() === ''`
NameMissing(name) == ~Truthy(name) \/ (IsStr(name) /\ Trim(name.v) = <<>>)

\* `field || null`
OrNull(field) == IF Truthy(field) THEN field ELSE Null

\* app.post('/create')
PostCreate(name, email, company) ==
  IF NameMissing(name)
    THEN /\ lastWrite' = Answer("create", name, 400, 0)
         /\ UNCHANGED <<customers, nextId, now, listing>>
  ELSE IF ~IsStr(name)                         \* name.trim is not a function
    THEN /\ lastWrite' = Answer("create", name, 500, 0)
         /\ UNCHANGED <<customers, nextId, now, listing>>
  ELSE /\ nextId <= MaxRows
       /\ \E err \in BOOLEAN :
            IF err
              THEN /\ lastWrite' = Answer("create", name, 500, 1)
                   /\ UNCHANGED <<customers, nextId, now, listing>>
              ELSE /\ customers' = customers \cup
                        {[id |-> nextId, name |-> Str(Trim(name.v)),
                          email |-> OrNull(email), company |-> OrNull(company),
                          created_at |-> now]}
                   /\ nextId' = nextId + 1
                   /\ listing' = Touched(customers')
                   /\ lastWrite' = Answer("create", name, 302, 1)
                   /\ UNCHANGED now

\* app.post('/update/:id')
PostUpdate(id, name, email, company) ==
  IF NameMissing(name)
    THEN /\ lastWrite' = Answer("update", name, 400, 0)
         /\ UNCHANGED <<customers, nextId, now, listing>>
  ELSE IF ~IsStr(name)
    THEN /\ lastWrite' = Answer("update", name, 500, 0)
         /\ UNCHANGED <<customers, nextId, now, listing>>
  ELSE \E err \in BOOLEAN :
         IF err
           THEN /\ lastWrite' = Answer("update", name, 500, 1)
                /\ UNCHANGED <<customers, nextId, now, listing>>
           ELSE /\ customers' =
                     {IF IdEquals(c.id, id)
                        THEN [c EXCEPT !.name = Str(Trim(name.v)),
                                       !.email = OrNull(email),
                                       !.company = OrNull(company)]
                        ELSE c : c \in customers}
                /\ listing' = Touched(customers')
                /\ lastWrite' = Answer("update", name, 302, 1)
                /\ UNCHANGED <<nextId, now>>

\* app.post('/delete/:id')
PostDelete(id) ==
  \E err \in BOOLEAN :
    IF err
      THEN /\ lastWrite' = Answer("delete", id, 500, 1)
           /\ UNCHANGED <<customers, nextId, now, listing>>
      ELSE /\ customers' = {c \in customers : ~IdEquals(c.id, id)}
           /\ listing' = Touched(customers')
           /\ lastWrite' = Answer("delete", id, 302, 1)
           /\ UNCHANGED <<nextId, now>>

\* ids.map(id => parseInt(id, 10)).filter(n => !isNaN(n))
RECURSIVE ParsedIds(_)
ParsedIds(a) ==
  IF a = <<>> THEN <<>>
  ELSE LET n == ParseInt(Str(Head(a)))
       IN  (IF IsNaN(n) THEN <<>> ELSE <<n>>) \o ParsedIds(Tail(a))

\* `id IN (?, ?, ...)` with numeric parameters
IdIn(id, nums) == \E i \in DOMAIN nums : IsFin(nums[i]) /\ nums[i].n = id

\* app.post('/delete-multiple'); ids and idsBr are req.body.ids and
\* req.body['ids[]']
PostDeleteMultiple(ids, idsBr) ==
  LET chosen == IF Truthy(ids) THEN ids ELSE idsBr
      list == IF IsArr(chosen) THEN chosen.v ELSE <<chosen.v>>
      nums == ParsedIds(list)
  IN  IF ~Truthy(chosen)
        THEN /\ lastWrite' = Answer("delete-multiple", chosen, 302, 0)
             /\ UNCHANGED <<customers, nextId, now, listing>>
      ELSE IF nums = <<>>
        THEN /\ lastWrite' = Answer("delete-multiple", chosen, 302, 0)
             /\ UNCHANGED <<customers, nextId, now, listing>>
      ELSE \E err \in BOOLEAN :
             IF err
               THEN /\ lastWrite' = Answer("delete-multiple", chosen, 500, 1)
                    /\ UNCHANGED <<customers, nextId, now, listing>>
               ELSE /\ customers' = {c \in customers : ~IdIn(c.id, nums)}
                    /\ listing' = Touched(customers')
                    /\ lastWrite' = Answer("delete-multiple", chosen, 302, 1)
                    /\ UNCHANGED <<nextId, now>>

\* A second passes: CURRENT_TIMESTAMP advances
Tick ==
  /\ now < MaxClock
  /\ now' = now + 1
  /\ UNCHANGED <<customers, nextId, listing, lastWrite>>

(***************************************************************************)
(* GET / : search + pagination + sorting                                   *)
(***************************************************************************)
Key_id_desc == <<"i", "d", "_", "d", "e", "s", "c">>
Key_id_asc == <<"i", "d", "_", "a", "s", "c">>
Key_name_asc == <<"n", "a", "m", "e", "_", "a", "s", "c">>
Key_name_desc == <<"n", "a", "m", "e", "_", "d", "e", "s", "c">>
Key_company_asc == <<"c", "o", "m", "p", "a", "n", "y", "_", "a", "s", "c">>
Key_company_desc == <<"c", "o", "m", "p", "a", "n", "y", "_", "d", "e", "s", "c">>
Key_created_asc == <<"c", "r", "e", "a", "t", "e", "d", "_", "a", "s", "c">>
Key_created_desc == <<"c", "r", "e", "a", "t", "e", "d", "_", "d", "e", "s", "c">>
Key_constructor == <<"c", "o", "n", "s", "t", "r", "u", "c", "t", "o", "r">>
Key_toString == <<"t", "o", "S", "t", "r", "i", "n", "g">>
Key_valueOf == <<"v", "a", "l", "u", "e", "O", "f">>
Key_proto == <<"_", "_", "p", "r", "o", "t", "o", "_", "_">>

\* The own properties of the object literal sortMap
sortMapOwn ==
  {<<Key_id_desc, "id DESC">>,
   <<Key_id_asc, "id ASC">>,
   <<Key_name_asc, "name COLLATE NOCASE ASC">>,
   <<Key_name_desc, "name COLLATE NOCASE DESC">>,
   <<Key_company_asc, "company COLLATE NOCASE ASC">>,
   <<Key_company_desc, "company COLLATE NOCASE DESC">>,
   <<Key_created_asc, "created_at ASC">>,
   <<Key_created_desc, "created_at DESC">>}

\* Property names every object inherits from Object.prototype, with the text
\* their value has when interpolated into a template string
ObjectPrototype ==
  {<<Key_constructor, "function Object() { [native code] }">>,
   <<Key_toString, "function toString() { [native code] }">>,
   <<Key_valueOf, "function valueOf() { [native code] }">>,
   <<Key_proto, "[object Object]">>}

\* sortMap[key]: an own property, else a property found on the prototype
\* chain, else undefined ("" here, which is falsy as undefined is)
sortMap(key) ==
  IF \E e \in sortMapOwn : e[1] = key
    THEN (CHOOSE e \in sortMapOwn : e[1] = key)[2]
  ELSE IF \E e \in ObjectPrototype : e[1] = key
    THEN (CHOOSE e \in ObjectPrototype : e[1] = key)[2]
  ELSE ""

\* sortMap[sort] || sortMap['id_desc']
OrderByFor(sort) == IF sortMap(sort) # "" THEN sortMap(sort) ELSE sortMap(Key_id_desc)

\* typeof v === 'string' && v.trim() !== '' ? v.trim() : dflt
TrimmedOr(v, dflt) == IF IsStr(v) /\ Trim(v.v) # <<>> THEN Trim(v.v) ELSE dflt

\* `%${q}%` three times when q is non-empty, else no parameter
LikeParams(q) ==
  IF q # <<>> THEN LET like == <<"%">> \o q \o <<"%">> IN <<like, like, like>> ELSE <<>>

NoReply == [err |-> FALSE, count |-> 0, rows |-> <<>>]

\* `trace` is the history of the request: the store calls it issued, their
\* outcomes and the responses it sent, in order; `dirty` records a row change
\* between its count and its select

IdleListing ==
  [pc |-> "idle", requestedPage |-> Num(1), requestedPageSize |-> Num(1),
   q |-> <<>>, sort |-> <<>>, orderBy |-> "", where |-> FALSE, params |-> <<>>,
   cntReply |-> NoReply, selReply |-> NoReply, total |-> 0, totalPages |-> Num(1), page |-> Num(1),
   pageSize |-> Num(1), offset |-> Num(0), rows |-> <<>>,
   status |-> 0, sent |-> 0, body |-> "", trace |-> <<>>, dirty |-> FALSE]

\* app.get('/'), up to the db.get call: parse the query string and issue the
\* count query
GetIndex(r, page, pageSize, qRaw, sortRaw) ==
  /\ listing[r].pc \in {"idle", "done"}
  /\ LET q == TrimmedOr(qRaw, <<>>)
         sort == TrimmedOr(sortRaw, Key_id_desc)
     IN  listing' = [listing EXCEPT ![r] =
           [IdleListing EXCEPT
              !.pc = "count",
              !.trace = <<"count">>,
              !.requestedPage = MathMax1(NumOr(ParseInt(page), Num(1))),
              !.requestedPageSize = MathMax1(NumOr(ParseInt(pageSize), Num(5))),
              !.q = q,
              !.sort = sort,
              !.orderBy = OrderByFor(sort),
              !.where = (q # <<>>),
              !.params = LikeParams(q)]]
  /\ UNCHANGED <<customers, nextId, now, lastWrite>>

\* The store executes the count query of request r (db.get): an error, or the
\* one row COUNT(*) always yields
DbGet(r) ==
  /\ listing[r].pc = "count"
  /\ \E reply \in {[NoReply EXCEPT !.err = TRUE],
                   [NoReply EXCEPT !.count = CountRows(listing[r].where, listing[r].params)]} :
       listing' = [listing EXCEPT
         ![r].pc = "countReply", ![r].cntReply = reply,
         ![r].trace = Append(@, IF reply.err THEN "countErr" ELSE "countOk")]
  /\ UNCHANGED <<customers, nextId, now, lastWrite>>

\* Faulty variant of TotalPages: Math.floor in place of Math.ceil
MutTotalPages(total, requestedPageSize) ==
  IF IsFin(requestedPageSize)
    THEN MathMax1(Num(total \div requestedPageSize.n))
    ELSE MathMax1(MathCeilDiv(total, requestedPageSize))

\* Math.max(1, Math.ceil(total / requestedPageSize))
TotalPages(total, requestedPageSize) == MathMax1(MathCeilDiv(total, requestedPageSize))

\* Faulty variant of ClampPage: the requested page, not clamped
MutClampPage(requestedPage, totalPages) ==
  IF IsFin(requestedPage) THEN requestedPage ELSE totalPages

\* Math.min(requestedPage, totalPages)
ClampPage(requestedPage, totalPages) == MathMin(requestedPage, totalPages)

\* The select query a count callback issues for request `me` given `total`
SelectIssued(me, total) ==
  LET totalPages == TotalPages(total, me.requestedPageSize)
      page == ClampPage(me.requestedPage, totalPages)
      pageSize == me.requestedPageSize
      offset == OffsetOf(page, pageSize)
  IN  [me EXCEPT !.pc = "select", !.trace = Append(@, "select"),
                 !.total = total,
                 !.totalPages = totalPages, !.page = page,
                 !.pageSize = pageSize, !.offset = offset,
                 !.where = (me.q # <<>>),
                 !.params = LikeParams(me.q) \o <<pageSize, offset>>]

\* Faulty variant of CountCallback: the error branch answers 500 without
\* `return` and falls through to the select query
MutCountCallbackNoReturn(r) ==
  /\ listing[r].pc = "countReply"
  /\ IF listing[r].cntReply.err
       THEN listing' = [listing EXCEPT ![r] =
              SelectIssued([listing[r] EXCEPT !.status = 500, !.sent = @ + 1,
                                              !.body = "Database error.",
                                              !.trace = Append(@, "send500")], 0)]
       ELSE listing' = [listing EXCEPT ![r] =
              SelectIssued(listing[r], listing[r].cntReply.count)]
  /\ UNCHANGED <<customers, nextId, now, lastWrite>>

\* Faulty variant of CountCallback: `total` kept in a variable shared by all
\* requests, so that a callback reads the count another request received last
MutCountCallbackShared(r) ==
  /\ listing[r].pc = "countReply"
  /\ IF listing[r].cntReply.err
       THEN listing' = [listing EXCEPT ![r].pc = "done", ![r].status = 500,
                                       ![r].sent = @ + 1, ![r].body = "Database error.",
                                       ![r].trace = Append(@, "send500")]
       ELSE \E o \in Reqs :
              /\ o = r \/ (listing[o].pc = "countReply" /\ ~listing[o].cntReply.err)
              /\ listing' = [listing EXCEPT ![r] =
                    SelectIssued(listing[r], listing[o].cntReply.count)]
  /\ UNCHANGED <<customers, nextId, now, lastWrite>>

\* The callback of db.get: answer 500 on error, else clamp the page and issue
\* the select query with LIMIT pageSize OFFSET offset
CountCallback(r) ==
  /\ listing[r].pc = "countReply"
  /\ IF listing[r].cntReply.err
       THEN listing' = [listing EXCEPT ![r].pc = "done", ![r].status = 500,
                                       ![r].sent = @ + 1, ![r].body = "Database error.",
                                       ![r].trace = Append(@, "send500")]
       ELSE listing' = [listing EXCEPT ![r] =
              SelectIssued(listing[r], listing[r].cntReply.count)]
  /\ UNCHANGED <<customers, nextId, now, lastWrite>>

\* The store executes the select query of request r (db.all)
DbAll(r) ==
  /\ listing[r].pc = "select"
  /\ \E reply \in {[err |-> TRUE, rows |-> <<>>]} \cup
                  SelectReplies(listing[r].where, listing[r].orderBy, listing[r].params) :
       listing' = [listing EXCEPT
         ![r].pc = "selectReply",
         ![r].selReply = [NoReply EXCEPT !.err = reply.err, !.rows = reply.rows],
         ![r].trace = Append(@, IF reply.err THEN "selectErr" ELSE "selectOk")]
  /\ UNCHANGED <<customers, nextId, now, lastWrite>>

\* The callback of db.all: answer 500 on error, else render the index view
\* with the rows as returned; a render that throws is answered 500
SelectCallback(r) ==
  /\ listing[r].pc = "selectReply"
  /\ IF listing[r].selReply.err
       THEN listing' = [listing EXCEPT ![r].pc = "done", ![r].status = 500,
                                       ![r].sent = @ + 1, ![r].body = "Database error.",
                                       ![r].trace = Append(@, "send500")]
       ELSE \E renderThrows \in BOOLEAN :
              listing' = [listing EXCEPT
                ![r].pc = "done",
                ![r].rows = IF renderThrows THEN <<>> ELSE listing[r].selReply.rows,
                ![r].sent = @ + 1,
                ![r].status = IF renderThrows THEN 500 ELSE 200,
                ![r].body = IF renderThrows THEN "Render error." ELSE "index",
                ![r].trace = Append(@, IF renderThrows THEN "send500" ELSE "render")]
  /\ UNCHANGED <<customers, nextId, now, lastWrite>>

(***************************************************************************)
(* Request inputs                                                          *)
(***************************************************************************)
\* A run of n nines
Nines(n) == [i \in 1..n |-> "9"]

\* Raw values of the page and pageSize query parameters: missing, empty,
\* non-numeric, zero, negative, small, with trailing text, beyond the exact
\* integers, beyond the largest double
RawNumbers ==
  {Undefined, Str(<<>>), Str(<<"x">>), Str(<<"0">>), Str(<<"-", "1">>), Str(<<"1">>), Str(<<"2">>), Str(<<"3">>), Str(<<" ", "2", "x">>),
   Str(Nines(20)), Str(Nines(310)), Str(<<"-">> \o Nines(310))}

\* Raw values of q
RawQueries ==
  {Undefined, Str(<<>>), Str(<<" ">>), Arr(<<<<"a">>, <<"b">>>>),
   Str(<<"a">>), Str(<<" ", "A", " ">>), Str(<<"b">>), Str(<<"a", "b">>), Str(<<"%">>), Str(<<"_">>), Str(<<"a", "_">>)}

\* Raw values of sort: the eight keys, one with surrounding blanks, missing,
\* blank, unknown, and names found on Object.prototype
RawSorts ==
  {Undefined, Str(<<" ">>), Str(<<"x">>), Str(<<" ">> \o Key_id_asc \o <<" ">>),
   Str(Key_constructor), Str(Key_toString), Str(Key_valueOf), Str(Key_proto)}
  \cup {Str(e[1]) : e \in sortMapOwn}

\* Raw values of the name, email and company form fields
RawNames ==
  {Undefined, Str(<<>>), Str(<<" ">>), Str(<<" ", " ">>), Arr(<<<<"a">>, <<"b">>>>),
   Str(<<" ", "a", " ">>), Str(<<"A", "b">>)}
RawOptionals == {Undefined, Str(<<>>), Str(<<"b">>)}

\* Values of the :id route parameter
RawIdParams == {Str(<<"1">>), Str(<<"2">>), Str(<<"x">>)}

\* Values of the ids / ids[] form fields of a bulk delete
RawIdLists ==
  {Undefined, Str(<<>>), Str(<<"1">>), Str(<<"x">>), Str(<<"2", "x">>), Str(<<"-", "1">>),
   Arr(<<<<"1">>, <<"x">>, <<"2">>>>), Arr(<<<<"x">>, <<"-">>>>),
   Arr(<<<<" ", "2">>, <<"3">>>>), Arr(<<Nines(20), Nines(310)>>)}

(***************************************************************************)
(* Stores the table can hold when the process starts (the database file    *)
(* outlives the process): any subset of rows that earlier create requests  *)
(* inserted with ids 1..n.                                                 *)
(***************************************************************************)
MaxTotal == 3         \* rows in a store a listing specification starts from

SeedRow(i) ==
  CASE i % 3 = 1 -> [id |-> i, name |-> Str(<<"a">>), email |-> Null,
                     company |-> Null, created_at |-> 0]
    [] i % 3 = 2 -> [id |-> i, name |-> Str(<<"A", "b">>), email |-> Str(<<"b">>),
                     company |-> Str(<<"A", "_">>), created_at |-> 0]
    [] i % 3 = 0 -> [id |-> i, name |-> Str(<<"b">>), email |-> Str(<<"a", "%">>),
                     company |-> Str(<<"a">>), created_at |-> 1]

SeedStores == SUBSET {SeedRow(i) : i \in 1..MaxTotal}

NoWrite == Answer("none", Undefined, 0, 0)

(***************************************************************************)
(* Specifications                                                          *)
(***************************************************************************)
\* The application from an empty database: write requests interleaved with
\* listings in flight
Init ==
  /\ customers = {}
  /\ nextId = 1
  /\ now = 0
  /\ listing = [r \in Reqs |-> IdleListing]
  /\ lastWrite = NoWrite

Create == PostCreate(Str(<<"a">>), Undefined, Undefined)
Delete == \E id \in {Str(<<"1">>), Str(<<"2">>)} : PostDelete(id)
DeleteMultiple == \E ids \in {Arr(<<<<"1">>, <<"2">>>>)} : PostDeleteMultiple(ids, Undefined)
Index ==
  \E r \in Reqs, page \in {Undefined, Str(<<"2">>)}, pageSize \in {Str(<<"1">>)},
     q \in {Undefined} :
    GetIndex(r, page, pageSize, q, Undefined)
Count == \E r \in Reqs : DbGet(r)
Counted == \E r \in Reqs : CountCallback(r)
Select == \E r \in Reqs : DbAll(r)
Selected == \E r \in Reqs : SelectCallback(r)

Next ==
  \/ Create \/ Delete \/ DeleteMultiple
  \/ Index \/ Count \/ Counted \/ Select \/ Selected

Spec == Init /\ [][Next]_vars

\* Write requests alone, over every raw form value
WriteNext ==
  \/ \E name \in RawNames : PostCreate(name, Undefined, Undefined)
  \/ \E id \in RawIdParams, name \in RawNames, field \in RawOptionals :
       PostUpdate(id, name, field, field)
  \/ \E id \in RawIdParams : PostDelete(id)
  \/ \E ids \in RawIdLists, idsBr \in {Undefined, Str(<<"3">>), Arr(<<<<"1">>, <<"3">>>>)} :
       PostDeleteMultiple(ids, idsBr)
  \/ Tick

SpecWrites == Init /\ [][WriteNext]_vars

ListingInit ==
  /\ customers \in SeedStores
  /\ nextId = MaxTotal + 1
  /\ now = 1
  /\ listing = [r \in Reqs |-> IdleListing]
  /\ lastWrite = NoWrite

Listing(pages, pageSizes, queries, sorts) ==
  \/ \E page \in pages, pageSize \in pageSizes, q \in queries, sort \in sorts :
       GetIndex(1, page, pageSize, q, sort)
  \/ DbGet(1)
  \/ CountCallback(1)
  \/ DbAll(1)
  \/ SelectCallback(1)

\* One listing at a time from any seeded store, over every raw page and
\* pageSize
PagingNext == Listing(RawNumbers, RawNumbers, {Undefined}, {Undefined})

SpecPaging == ListingInit /\ [][PagingNext]_vars

\* ... over every raw q
SearchNext ==
  Listing({Undefined}, {Undefined, Str(<<"1">>)}, RawQueries, {Undefined, Str(Key_name_asc)})

SpecSearch == ListingInit /\ [][SearchNext]_vars

\* ... over every raw sort, with rows deleted while a listing is in flight
SortNext ==
  \/ Listing({Undefined, Str(<<"2">>)}, {Str(<<"2">>)}, {Undefined, Str(<<"a">>)}, RawSorts)
  \/ PostDelete(Str(<<"3">>))

SpecSort == ListingInit /\ [][SortNext]_vars

(***************************************************************************)
(* Properties                                                              *)
(***************************************************************************)
Has(tr, e) == \E i \in DOMAIN tr : tr[i] = e

\* x >= 1 for a JavaScript number
AtLeastOne(x) == (IsFin(x) /\ x.n >= 1) \/ x.k \in {"huge", "inf"}

\* n = max(1, ceil(total / size)), stated without division: n is the least
\* integer >= 1 whose n pages of `size` rows hold `total` rows
IsPageCount(n, total, size) ==
  IF IsFin(size)
    THEN n >= 1 /\ n * size.n >= total /\ (n > 1 => (n - 1) * size.n < total)
    ELSE n = 1

\* C1: every listing that reaches its select query, whatever the raw page and
\* pageSize were, uses a pageSize >= 1, has totalPages = max(1, ceil(total /
\* pageSize)) and a page with 1 <= page <= totalPages, page = min(requestedPage,
\* totalPages).
C1_PageClamp ==
  \A r \in Reqs :
    LET me == listing[r] IN
    Has(me.trace, "select") =>
      /\ AtLeastOne(me.pageSize)
      /\ IsFin(me.totalPages) /\ IsPageCount(me.totalPages.n, me.total, me.pageSize)
      /\ IsFin(me.page) /\ 1 <= me.page.n /\ me.page.n <= me.totalPages.n
      /\ IF IsFin(me.requestedPage) /\ me.requestedPage.n < me.totalPages.n
           THEN me.page = me.requestedPage
           ELSE me.page = me.totalPages

\* A rendered listing whose raw page was too large to be an exact integer and
\* was clamped to a last page beyond the first
C1_Witness ==
  \E r \in Reqs :
    /\ listing[r].status = 200
    /\ listing[r].requestedPage = Huge
    /\ listing[r].page.n > 1
    /\ listing[r].page = listing[r].totalPages

\* C2: the OFFSET parameter of every select query is (page - 1) * pageSize, is
\* >= 0, and is < total whenever total > 0.
C2_Offset ==
  \A r \in Reqs :
    LET me == listing[r]
        offset == me.params[Len(me.params)]
    IN  me.pc = "select" =>
          /\ IsFin(offset) /\ offset.n >= 0
          /\ IsFin(me.pageSize) => offset.n = (me.page.n - 1) * me.pageSize.n
          /\ me.total > 0 => offset.n < me.total

\* The eight keys of the whitelist
SortKeys == {e[1] : e \in sortMapOwn}

\* C3: a sort key outside the whitelist gives ORDER BY id DESC, and the ORDER
\* BY text of every select query is one of the eight whitelist expressions.
C3_SortWhitelist ==
  \A r \in Reqs :
    LET me == listing[r] IN
    me.pc # "idle" =>
      /\ me.orderBy \in {e[2] : e \in sortMapOwn}
      /\ me.sort \notin SortKeys => me.orderBy = "id DESC"

\* C4: a failed count is answered 500 with no select issued and nothing
\* rendered; a failed select is answered 500 with nothing rendered; a request
\* sends at most one response; a listing is rendered only after both queries
\* succeeded.
C4_Failures ==
  \A r \in Reqs :
    LET me == listing[r] IN
    /\ me.sent <= 1
    /\ Has(me.trace, "countErr") =>
         /\ ~Has(me.trace, "select") /\ ~Has(me.trace, "render")
         /\ me.pc = "done" => (me.status = 500 /\ me.sent = 1)
    /\ Has(me.trace, "selectErr") =>
         /\ ~Has(me.trace, "render")
         /\ me.pc = "done" => (me.status = 500 /\ me.sent = 1)
    /\ (me.status = 200 \/ Has(me.trace, "render")) =>
         Has(me.trace, "countOk") /\ Has(me.trace, "selectOk")

\* One request answered 500 after its count failed while another was answered
\* 500 after its select failed
C4_Witness ==
  \E r, o \in Reqs :
    /\ listing[r].trace = <<"count", "countErr", "send500">>
    /\ listing[o].trace = <<"count", "countOk", "select", "selectErr", "send500">>

\* C5 as stated: under every interleaving with writes, a rendered page greater
\* than 1 has rows.
C5_NeverBeyondData ==
  \A r \in Reqs :
    (listing[r].status = 200 /\ listing[r].page.n > 1) => listing[r].rows # <<>>

\* C5 amended: the rendered page never exceeds the page count of the total the
\* request's own count returned, and a rendered page greater than 1 has rows
\* whenever no row changed between the request's count and its select.
C5_NeverBeyondCounted ==
  \A r \in Reqs :
    LET me == listing[r] IN
    me.status = 200 =>
      /\ IsPageCount(me.totalPages.n, me.total, me.pageSize)
      /\ me.page.n <= me.totalPages.n
      /\ (~me.dirty /\ me.page.n > 1) => me.rows # <<>>

\* A listing rendered page 2 with rows, undisturbed, while the other listing
\* in flight had rows change between its count and its select
C5_Witness ==
  \E r, o \in Reqs :
    /\ listing[r].status = 200 /\ ~listing[r].dirty
    /\ listing[r].page.n > 1 /\ listing[r].rows # <<>>
    /\ listing[o].dirty

\* The raw names that are missing, empty or white space only
BlankNames == {n \in RawNames : n = Undefined \/ (IsStr(n) /\ Trim(n.v) = <<>>)}

NamesNonEmpty ==
  \A c \in customers : IsStr(c.name) /\ Trim(c.name.v) # <<>>

BlankAnswered400 ==
  (lastWrite.route \in {"create", "update"} /\ lastWrite.input \in BlankNames)
    => (lastWrite.status = 400 /\ lastWrite.runs = 0)

RejectedChangesNothing ==
  lastWrite'.status = 400 => (customers' = customers /\ nextId' = nextId)

\* C6: every stored name is non-empty after trimming, and a create or update
\* whose name is missing, empty or blank is answered 400, issues no statement
\* and leaves the store unchanged.
C6_NameRequired ==
  [](NamesNonEmpty /\ BlankAnswered400) /\ [][RejectedChangesNothing]_vars

\* An update with a blank name was rejected while the table held a row
C6_Witness ==
  /\ lastWrite.route = "update" /\ lastWrite.input = Str(<<" ", " ">>)
  /\ lastWrite.status = 400
  /\ customers # {}

\* An entry of ids that is numeric: optional blanks, an optional sign, digits
IsNumericEntry(e) ==
  LET s == Trim(e)
      d == IF s # <<>> /\ Head(s) \in {"-", "+"} THEN Tail(s) ELSE s
  IN  d # <<>> /\ \A i \in DOMAIN d : d[i] \in Digits

\* The numeric entry e has the integer value id
EntryIs(e, id) ==
  LET s == Trim(e)
      sig == DropLeading(s, {"+", "0"})
  IN  IsNumericEntry(e) /\ Head(s) # "-" /\ Len(sig) <= 9 /\ DigitsValue(sig, 0) = id

BulkDeleteExact ==
  \A ids \in RawIdLists, idsBr \in RawIdLists :
    LET chosen == IF Truthy(ids) THEN ids ELSE idsBr
        entries == IF IsArr(chosen) THEN {chosen.v[i] : i \in DOMAIN chosen.v}
                   ELSE IF Truthy(chosen) THEN {chosen.v} ELSE {}
    IN  (PostDeleteMultiple(ids, idsBr) /\ lastWrite'.status = 302) =>
          /\ customers' = {c \in customers : ~\E e \in entries : EntryIs(e, c.id)}
          /\ (~\E e \in entries : IsNumericEntry(e)) => lastWrite'.runs = 0

\* C7: a bulk delete removes exactly the customers whose id is the integer
\* value of a numeric entry of ids, ignores the entries that are not numeric,
\* and issues no statement when no entry is numeric.
C7_BulkDelete == [][BulkDeleteExact]_vars

\* t occurs in s as a literal substring, ignoring ASCII case
Contains(s, t) ==
  \E i \in 0..(Len(s) - Len(t)) :
    \A j \in 1..Len(t) : Lower(s[i + j]) = Lower(t[j])

\* The customer matches the search string literally
LiteralMatch(c, q) ==
  \/ q = <<>>
  \/ \E f \in {c.name, c.company, c.email} : IsStr(f) /\ Contains(f.v, q)

\* C8: the rows a listing counts are the customers whose name, company or
\* email contains the trimmed q as a literal substring, ignoring case; all
\* customers when q is empty.
C8_LiteralSearch ==
  \A r \in Reqs :
    LET me == listing[r] IN
    (me.pc = "countReply" /\ ~me.cntReply.err) =>
      me.cntReply.count = Cardinality({c \in customers : LiteralMatch(c, me.q)})

\* The rows `rows` are the elements at positions (page-1)*pageSize onward, at
\* most pageSize of them, of the rows of `store` matching the request's filter
\* in its sort order
IsPageOf(rows, me, store) ==
  LET matching == {c \in store : WhereHolds(c, me.where, LikeParams(me.q))}
      first == (me.page.n - 1) * (IF IsFin(me.pageSize) THEN me.pageSize.n ELSE 0)
      left == me.total - first
      expected == IF me.total = 0 THEN 0
                  ELSE IF IsFin(me.pageSize) /\ me.pageSize.n < left THEN me.pageSize.n
                  ELSE left
  IN  /\ me.total = Cardinality(matching)
      /\ Len(rows) = expected
      /\ \E s \in Orderings(matching, me.orderBy) :
           \A i \in 1..Len(rows) : rows[i] = s[first + i]

SameFilter ==
  \A r \in Reqs :
    LET me == listing[r] IN
    /\ me.pc \in {"count", "countReply"} => me.params = LikeParams(me.q)
    /\ Has(me.trace, "select") =>
         /\ me.total = me.cntReply.count
         /\ me.where = (me.q # <<>>)
         /\ SubSeq(me.params, 1, Len(me.params) - 2) = LikeParams(me.q)
    /\ me.status = 200 => me.rows = me.selReply.rows

UndisturbedPage ==
  \A r \in Reqs :
    (/\ listing[r].pc = "select" /\ listing'[r].pc = "selectReply"
     /\ ~listing'[r].selReply.err /\ ~listing[r].dirty)
    => IsPageOf(listing'[r].selReply.rows, listing[r], customers)

\* C9: with no row changed between its count and its select, a listing counts
\* and selects with the same filter and parameters, its total is the number
\* of matching rows, and its rows are positions offset .. offset + pageSize - 1
\* of the matching rows in sort order: min(pageSize, total - offset) rows when
\* total > 0, none when total = 0.
C9_PageContents == []SameFilter /\ [][UndisturbedPage]_vars

\* total 3, pageSize 2, requested page 2: page 2 rendered with the one last row
C9_Witness ==
  \E r \in Reqs :
    /\ listing[r].status = 200 /\ ~listing[r].dirty
    /\ listing[r].total = 3 /\ listing[r].pageSize = Num(2)
    /\ listing[r].page = Num(2) /\ listing[r].offset = Num(2)
    /\ Len(listing[r].rows) = 1

\* C10: with several listings in flight, a request's select is issued only
\* after its own count succeeded, and its LIMIT, OFFSET, page, pageSize,
\* totalPages and total come from its own parameters and its own count.
C10_OwnChain ==
  \A r \in Reqs :
    LET me == listing[r] IN
    Has(me.trace, "select") =>
      /\ SubSeq(me.trace, 1, 3) = <<"count", "countOk", "select">>
      /\ me.total = me.cntReply.count
      /\ me.pageSize = me.requestedPageSize
      /\ IsPageCount(me.totalPages.n, me.total, me.requestedPageSize)
      /\ me.page.n = (IF me.requestedPage.n < me.totalPages.n
                        THEN me.requestedPage.n ELSE me.totalPages.n)
      /\ (me.pc = "select" \/ me.pc = "selectReply") =>
           /\ me.params[Len(me.params) - 1] = me.requestedPageSize
           /\ me.params[Len(me.params)] = Num((me.page.n - 1) * me.requestedPageSize.n)

\* Two listings past their count at once, with different totals and pages
C10_Witness ==
  \E r, o \in Reqs :
    /\ listing[r].pc = "selectReply" /\ listing[o].pc = "select"
    /\ listing[r].total # listing[o].total
    /\ listing[r].page # listing[o].page

====
